---- MODULE Spec2Model ----
(***************************************************************************)
(* Request handlers of src/server.js.  The file holds two revisions of the *)
(* server one after the other: revision 1 (lines 1-152) and revision 2     *)
(* (lines 154-400).  A deployment runs one of them; "variant" says which.  *)
(* The relational store, the object store and the messaging provider are   *)
(* external: a call to one of them is issued by a handler and later        *)
(* settles, with success or with failure.                                  *)
(***************************************************************************)
EXTENDS Integers, Sequences, FiniteSets, TLC

VARIABLES variant,   \* 1 or 2: the revision of server.js that is deployed
          oreq,      \* order requests: slot -> request record
          preq,      \* product and /db-test requests: slot -> request record
          products,  \* the products table, rows in heap (insertion) order
          nextId     \* the next value of the id sequence of the table

vars == <<variant, oreq, preq, products, nextId>>

\* ---------------------------------------------------------------- bounds
MaxOrderReq == 2     \* order requests that can be in flight together
MaxProdReq == 2      \* product requests that can be in flight together
MaxId == 2           \* ids the sequence hands out before inserts stop

OReq == 1..MaxOrderReq
PReq == 1..MaxProdReq

\* ------------------------------------------------------ JavaScript values
Absent == "<undefined>"      \* a property the payload does not carry
Null == "<null>"             \* JSON null, SQL NULL

\* !v of JavaScript, for the values the payloads carry
Falsy(v) == v \in {Absent, Null, ""}
Truthy(v) == ~Falsy(v)

\* `${v}` of a template literal
Str(v) == IF v = Absent THEN "undefined" ELSE IF v = Null THEN "null" ELSE v

\* order.items: undefined, a string, or an array whose entries are objects
\* {title, weight} or null
NoItems == [kind |-> "undefined", elems |-> <<>>]
StrItems == [kind |-> "string", elems |-> <<>>]
Item(t, w) == [kind |-> "object", title |-> t, weight |-> w]
NullItem == [kind |-> "null", title |-> Absent, weight |-> Absent]
ArrItems(s) == [kind |-> "array", elems |-> s]

\* !order.items: an array (even an empty one) and a non-empty string are truthy
ItemsTruthy(items) == items.kind \in {"array", "string"}

ItemsValues ==
  { NoItems, StrItems, ArrItems(<<>>),
    ArrItems(<<Item("Ring", "5"), Item("Band", Absent)>>),
    ArrItems(<<Item("Ring", "5"), NullItem>>) }

Orders ==
  [ customerName : {Absent, "", "A"},
    phone : {Null, "123"},
    address : {Absent, "Street"},
    total : {Absent},
    items : ItemsValues ]

NoOrder ==
  [ customerName |-> Absent, phone |-> Absent, address |-> Absent,
    total |-> Absent, items |-> NoItems ]

\* --------------------------------------------------------------- responses
Response(status, success, message, error) ==
  [status |-> status, success |-> success, message |-> message, error |-> error]

IdleOrderReq ==
  [pc |-> "idle", order |-> NoOrder, res |-> <<>>, log |-> <<>>, message |-> <<>>]

\* ------------------------------------------------ revision 1: orders
\* the validation of the respond-first handler
OrderInvalidB(order) ==
  Falsy(order.customerName) \/ Falsy(order.phone) \/ Falsy(order.address)

\* the text sendWhatsAppOrder of revision 1 builds
FormatMessageB(order) ==
  << "NEW ORDER", Str(order.customerName), Str(order.phone),
     Str(order.address), Str(order.total) >>

\* res.json / res.status(..).json of a handler: one more response on the wire
Respond(q, response) ==
  [q EXCEPT !.res = Append(@, response), !.log = Append(@, "respond")]

Logged(q, event) == [q EXCEPT !.log = Append(@, event)]

\* sendWhatsAppOrder of revision 1 up to its await: the text is built and
\* axios.post is called
InvokeNotifyB(q) ==
  [q EXCEPT !.message = FormatMessageB(q.order),
            !.log = Append(@, "notify_invoked"),
            !.pc = "notifying"]

\* the respond-first handler after validation: res.json, then sendWhatsAppOrder
AcceptOrderB(q) ==
  InvokeNotifyB(Respond(q, Response(200, "true", "Order placed successfully", Absent)))

RejectOrderB(q) ==
  [Respond(q, Response(400, "false", "Invalid order data", Absent)) EXCEPT !.pc = "done"]

\* sendWhatsAppOrder of revision 1 without its try/catch: the rejection leaves it
CatchNotifyB_Rethrown(q) ==
  [Logged(q, "notify_failed") EXCEPT !.pc = "unhandled"]

\* the catch block of sendWhatsAppOrder of revision 1: the failure is logged
CatchNotifyB(q) ==
  [Logged(Logged(q, "notify_failed"), "logged_failure") EXCEPT !.pc = "done"]

NotifySentB(q) ==
  [Logged(Logged(q, "notify_ok"), "logged_sent") EXCEPT !.pc = "done"]

\* POST /api/orders of revision 1, from the request to the await in axios.post
ReceiveOrderB(r, order) ==
  /\ variant = 1
  /\ oreq[r].pc = "idle"
  /\ LET q == [oreq[r] EXCEPT !.order = order] IN
       oreq' = [oreq EXCEPT ![r] =
                  IF OrderInvalidB(order) THEN RejectOrderB(q) ELSE AcceptOrderB(q)]
  /\ UNCHANGED <<variant, preq, products, nextId>>

\* axios.post settles inside sendWhatsAppOrder of revision 1
NotifySettleB(r, ok) ==
  /\ variant = 1
  /\ oreq[r].pc = "notifying"
  /\ oreq' = [oreq EXCEPT ![r] = IF ok THEN NotifySentB(@) ELSE CatchNotifyB(@)]
  /\ UNCHANGED <<variant, preq, products, nextId>>

\* ------------------------------------------------ revision 2: orders
\* the validation of the awaiting handler without the check of items
OrderInvalidA_NoItemsCheck(order) ==
  Falsy(order.customerName) \/ Falsy(order.phone) \/ Falsy(order.address)

\* the validation of the awaiting handler
OrderInvalidA(order) ==
  \/ Falsy(order.customerName)
  \/ Falsy(order.phone)
  \/ Falsy(order.address)
  \/ ~ItemsTruthy(order.items)

\* order.items.forEach(...) raises a TypeError when items is no array, and
\* item.title raises one when an entry is null
ItemsTextThrows(items) ==
  \/ items.kind # "array"
  \/ \E i \in 1..Len(items.elems) : items.elems[i].kind = "null"

ItemsText(items) ==
  [i \in 1..Len(items.elems) |->
     <<i, Str(items.elems[i].title), Str(items.elems[i].weight)>>]

\* the text sendWhatsAppOrder of revision 2 builds
FormatMessageA(order) ==
  << "NEW ORDER RECEIVED", Str(order.customerName), Str(order.phone),
     Str(order.address), ItemsText(order.items) >>

RejectOrderA(q) ==
  [Respond(q, Response(400, Absent, Absent, "Missing order fields")) EXCEPT !.pc = "done"]

\* the catch block of the awaiting handler
CatchOrderA(q) ==
  [Respond(q, Response(500, "false", "Failed to process order", Absent))
     EXCEPT !.pc = "done"]

OrderSentA(q) ==
  [Respond(q, Response(200, "true", "Order received & WhatsApp sent", Absent))
     EXCEPT !.pc = "done"]

\* sendWhatsAppOrder of revision 2 up to its await; a TypeError raised while
\* the text is built rejects the call before axios.post is reached
InvokeNotifyA(q) ==
  IF ItemsTextThrows(q.order.items)
  THEN CatchOrderA(Logged(q, "format_threw"))
  ELSE [q EXCEPT !.message = FormatMessageA(q.order),
                 !.log = Append(@, "notify_invoked"),
                 !.pc = "notifying"]

\* POST /api/orders of revision 2, from the request to the await in axios.post
ReceiveOrderA(r, order) ==
  /\ variant = 2
  /\ oreq[r].pc = "idle"
  /\ LET q == [oreq[r] EXCEPT !.order = order] IN
       oreq' = [oreq EXCEPT ![r] =
                  IF OrderInvalidA(order) THEN RejectOrderA(q) ELSE InvokeNotifyA(q)]
  /\ UNCHANGED <<variant, preq, products, nextId>>

\* axios.post settles; the handler resumes after await sendWhatsAppOrder(order)
NotifySettleA(r, ok) ==
  /\ variant = 2
  /\ oreq[r].pc = "notifying"
  /\ oreq' = [oreq EXCEPT ![r] =
                IF ok THEN OrderSentA(Logged(@, "notify_ok"))
                      ELSE CatchOrderA(Logged(@, "notify_failed"))]
  /\ UNCHANGED <<variant, preq, products, nextId>>

\* the connection of a finished request is closed; the slot takes the next one
CloseOrder(r) ==
  /\ oreq[r].pc = "done"
  /\ oreq' = [oreq EXCEPT ![r] = IdleOrderReq]
  /\ UNCHANGED <<variant, preq, products, nextId>>

\* ------------------------------------------------------------- products
\* req.body and req.file of a product request (multer: text fields are strings)
Body(title, description, weight, category, imageUrl, file) ==
  [ title |-> title, description |-> description, weight |-> weight,
    category |-> category, imageUrl |-> imageUrl, file |-> file ]

NoBody == Body(Absent, Absent, Absent, Absent, Absent, Absent)

ProductBodies ==
  { Body("Ring", "d", "5", "Gold", "http://x/a.jpg", Absent),
    Body("Ring", "d", "5", "Gold", Absent, "buf"),
    Body("Band", Absent, Absent, "Gold", "http://x/b.jpg", "buf"),
    Body("Band", Absent, Absent, Absent, Absent, Absent),
    Body("Ring", "d", "5", "Gold", Absent, Absent),
    Body("Ring", Absent, "5", "Gold", "", Absent),
    Body("", "d", "5", "Gold", "http://x/a.jpg", Absent),
    Body("Ring", "d", Absent, Absent, "http://x/a.jpg", "buf") }

\* the bodies PUT /api/products/:id is tried with: all fields with a URL, all
\* fields with a file, only the title
UpdateBodies ==
  { Body("Ring", "d", "5", "Gold", "http://x/a.jpg", Absent),
    Body("Band", Absent, Absent, "Gold", "http://x/b.jpg", "buf"),
    Body("Band", Absent, Absent, Absent, Absent, Absent) }

\* result.secure_url of a finished upload of the buffer
SecureUrl(file) == "https://cdn/products/" \o file

\* a query parameter as the driver sends it: undefined goes as NULL
ToSql(v) == IF v = Absent THEN Null ELSE v

Row(id, title, description, image, weight, category) ==
  [ id |-> id, title |-> title, description |-> description, image |-> image,
    weight |-> weight, category |-> category ]

Ids(rows) == { rows[i].id : i \in 1..Len(rows) }

PResponse(status, error, message, rows) ==
  [status |-> status, error |-> error, message |-> message, rows |-> rows]

IdleProdReq ==
  [ kind |-> "idle", pc |-> "idle", body |-> NoBody, id |-> 0, image |-> Absent,
    res |-> <<>>, log |-> <<>> ]

\* a rejection that leaves an async handler which has no try/catch: Express 4
\* drops it (an unhandled rejection, the request is never answered), Express 5
\* hands it to its default error handler, which answers 500
Escaped(q, express) ==
  IF express = 4
  THEN [Logged(q, "unhandled_rejection") EXCEPT !.pc = "unhandled"]
  ELSE [Respond(q, PResponse(500, "Internal Server Error", Absent, <<>>))
          EXCEPT !.pc = "done"]

ExpressVersions == {4, 5}

\* the catch block of a product handler
CatchProduct(q, text) ==
  [Respond(q, PResponse(500, text, Absent, <<>>)) EXCEPT !.pc = "done"]

Reject400(q, text) ==
  [Respond(q, PResponse(400, text, Absent, <<>>)) EXCEPT !.pc = "done"]

\* await uploadToCloudinary(req.file.buffer) is reached
StartUpload(q) ==
  [Logged(q, "upload_started") EXCEPT !.pc = "uploading"]

\* await pool.query(...) is reached
IssueQuery(q) ==
  [Logged(q, "query_issued") EXCEPT !.pc = "querying"]

\* the error text of the catch block of each handler
ErrorText(kind) ==
  CASE kind = "create1" -> "Product failed"
    [] kind = "create2" -> "Failed to add product"
    [] kind = "update" -> "Failed to update product"
    [] kind = "delete" -> "Failed to delete product"
    [] kind = "list2" -> "Failed to fetch products"
    [] OTHER -> Absent

\* POST /api/products of revision 1, up to its first await
HandleCreate1(q) ==
  LET q1 == [q EXCEPT !.image = q.body.imageUrl] IN
    IF q.body.file # Absent THEN StartUpload(q1) ELSE IssueQuery(q1)

ReceiveCreate1(r, body) ==
  /\ variant = 1
  /\ preq[r].pc = "idle"
  /\ preq' = [preq EXCEPT ![r] =
                HandleCreate1([@ EXCEPT !.kind = "create1", !.body = body])]
  /\ UNCHANGED <<variant, oreq, products, nextId>>

\* POST /api/products of revision 2, up to its first await
HandleCreate2(q) ==
  IF Falsy(q.body.title) \/ Falsy(q.body.category)
  THEN Reject400(q, "Title and category required")
  ELSE IF q.body.file # Absent
  THEN StartUpload(q)
  ELSE IF Truthy(q.body.imageUrl)
  THEN IssueQuery([q EXCEPT !.image = q.body.imageUrl])
  ELSE Reject400(q, "Image or Image URL required")

ReceiveCreate2(r, body) ==
  /\ variant = 2
  /\ preq[r].pc = "idle"
  /\ preq' = [preq EXCEPT ![r] =
                HandleCreate2([@ EXCEPT !.kind = "create2", !.body = body])]
  /\ UNCHANGED <<variant, oreq, products, nextId>>

\* PUT /api/products/:id, up to its first await
HandleUpdate(q) ==
  LET q1 == [q EXCEPT !.image =
                IF Truthy(q.body.imageUrl) THEN q.body.imageUrl ELSE Null] IN
    IF q.body.file # Absent THEN StartUpload(q1) ELSE IssueQuery(q1)

\* the upload result dropped when the body also carries an imageUrl
UploadedImage_BodyUrlFirst(q, url) ==
  IF Truthy(q.body.imageUrl) THEN q.body.imageUrl ELSE url

\* the image the handler goes on with once the upload has resolved
UploadedImage(q, url) == url

\* the handler resumes after await uploadToCloudinary(...), with the URL
AfterUpload(q) ==
  IssueQuery([Logged(q, "upload_ok") EXCEPT
                !.image = UploadedImage(q, SecureUrl(q.body.file))])

\* the upload rejected: the catch block of the handler answers
UploadFailed(q) ==
  CatchProduct(Logged(q, "upload_failed"), ErrorText(q.kind))

\* uploadToCloudinary settles in a create or update handler
UploadSettle(r, ok) ==
  /\ preq[r].pc = "uploading"
  /\ preq' = [preq EXCEPT ![r] =
                IF ok THEN AfterUpload(preq[r]) ELSE UploadFailed(preq[r])]
  /\ UNCHANGED <<variant, oreq, products, nextId>>

\* INSERT INTO products (...) VALUES ($1..$5) RETURNING *: the row the store adds
InsertedRow(q, id) ==
  Row(id, ToSql(q.body.title), ToSql(q.body.description), ToSql(q.image),
      ToSql(q.body.weight), ToSql(q.body.category))

\* the status of the answer to a successful create: res.json in revision 1,
\* res.status(201).json in revision 2
CreatedStatus(kind) == IF kind = "create1" THEN 200 ELSE 201

\* the INSERT of a create handler executes and the handler answers with rows[0]
InsertOk(r) ==
  /\ preq[r].pc = "querying"
  /\ preq[r].kind \in {"create1", "create2"}
  /\ nextId <= MaxId
  /\ LET row == InsertedRow(preq[r], nextId) IN
       /\ products' = Append(products, row)
       /\ nextId' = nextId + 1
       /\ preq' = [preq EXCEPT ![r] =
             [Respond(Logged(@, "query_ok"),
                      PResponse(CreatedStatus(@.kind), Absent, Absent, <<row>>))
                EXCEPT !.pc = "done"]]
  /\ UNCHANGED <<variant, oreq>>

\* pool.query rejects in a handler that has a try/catch around it
QueryFailCaught(r) ==
  /\ preq[r].pc = "querying"
  /\ preq[r].kind \in {"create1", "create2", "update", "delete", "list2"}
  /\ preq' = [preq EXCEPT ![r] =
                CatchProduct(Logged(@, "query_failed"), ErrorText(@.kind))]
  /\ UNCHANGED <<variant, oreq, products, nextId>>

\* pool.query rejects in a handler that has none: GET /api/products of
\* revision 1 and GET /db-test
QueryFailEscapes(r, express) ==
  /\ preq[r].pc = "querying"
  /\ preq[r].kind \in {"list1", "dbtest"}
  /\ preq' = [preq EXCEPT ![r] = Escaped(Logged(@, "query_failed"), express)]
  /\ UNCHANGED <<variant, oreq, products, nextId>>

\* UPDATE products SET title=$1, description=$2, image=$3, weight=$4,
\* category=$5 WHERE id=$6: every column is assigned the parameter
UpdatedRow(row, q) ==
  Row(row.id, ToSql(q.body.title), ToSql(q.body.description), ToSql(q.image),
      ToSql(q.body.weight), ToSql(q.body.category))

UpdateRows(rows, q) ==
  [i \in 1..Len(rows) |-> IF rows[i].id = q.id THEN UpdatedRow(rows[i], q) ELSE rows[i]]

\* RETURNING *: the rows the statement touched
Returning(rows, id) == SelectSeq(rows, LAMBDA row : row.id = id)

ReceiveUpdate(r, id, body) ==
  /\ variant = 2
  /\ preq[r].pc = "idle"
  /\ preq' = [preq EXCEPT ![r] =
                HandleUpdate([@ EXCEPT !.kind = "update", !.id = id, !.body = body])]
  /\ UNCHANGED <<variant, oreq, products, nextId>>

\* the UPDATE executes and the handler answers with rows[0] (nothing when no
\* row has the id)
UpdateOk(r) ==
  /\ preq[r].pc = "querying"
  /\ preq[r].kind = "update"
  /\ products' = UpdateRows(products, preq[r])
  /\ preq' = [preq EXCEPT ![r] =
        [Respond(Logged(@, "query_ok"),
                 PResponse(200, Absent, Absent, Returning(products', @.id)))
           EXCEPT !.pc = "done"]]
  /\ UNCHANGED <<variant, oreq, nextId>>

\* DELETE /api/products/:id, up to its await
ReceiveDelete(r, id) ==
  /\ variant = 2
  /\ preq[r].pc = "idle"
  /\ preq' = [preq EXCEPT ![r] = IssueQuery([@ EXCEPT !.kind = "delete", !.id = id])]
  /\ UNCHANGED <<variant, oreq, products, nextId>>

\* DELETE FROM products WHERE id=$1
DeleteRows(rows, id) == SelectSeq(rows, LAMBDA row : row.id # id)

\* a delete handler that answers 404 when no row was deleted
DeletedResponse_NotFound(rowCount) ==
  IF rowCount = 0
  THEN PResponse(404, "Product not found", Absent, <<>>)
  ELSE PResponse(200, Absent, "Product deleted", <<>>)

\* the answer of the delete handler; it does not look at the row count
DeletedResponse(rowCount) == PResponse(200, Absent, "Product deleted", <<>>)

RowCountEvent(n) == IF n = 0 THEN "rowcount_0" ELSE "rowcount_1"

\* the DELETE executes and the handler answers
DeleteOk(r) ==
  /\ preq[r].pc = "querying"
  /\ preq[r].kind = "delete"
  /\ products' = DeleteRows(products, preq[r].id)
  /\ LET n == Len(products) - Len(products') IN
       preq' = [preq EXCEPT ![r] =
          [Respond(Logged(Logged(@, "query_ok"), RowCountEvent(n)), DeletedResponse(n))
             EXCEPT !.pc = "done"]]
  /\ UNCHANGED <<variant, oreq, nextId>>

\* SELECT * FROM products without the ORDER BY: the rows in heap order
HeapOrder(rows) == rows

\* SELECT * FROM products ORDER BY id DESC
RECURSIVE OrderByIdDesc(_)
OrderByIdDesc(rows) ==
  IF rows = <<>> THEN <<>>
  ELSE LET top == CHOOSE i \in 1..Len(rows) :
                    \A j \in 1..Len(rows) : rows[j].id <= rows[i].id
           rest == [k \in 1..(Len(rows) - 1) |->
                      IF k < top THEN rows[k] ELSE rows[k + 1]]
       IN <<rows[top]>> \o OrderByIdDesc(rest)

\* GET /api/products of either revision, up to its await; id keeps the value
\* of the id sequence at that moment
ReceiveList(r) ==
  /\ preq[r].pc = "idle"
  /\ preq' = [preq EXCEPT ![r] =
        IssueQuery([@ EXCEPT !.kind = IF variant = 1 THEN "list1" ELSE "list2",
                             !.id = nextId])]
  /\ UNCHANGED <<variant, oreq, products, nextId>>

\* the SELECT executes and the handler answers with the rows
ListOk(r) ==
  /\ preq[r].pc = "querying"
  /\ preq[r].kind \in {"list1", "list2"}
  /\ preq' = [preq EXCEPT ![r] =
        [Respond(Logged(@, "query_ok"),
                 PResponse(200, Absent, Absent, OrderByIdDesc(products)))
           EXCEPT !.pc = "done"]]
  /\ UNCHANGED <<variant, oreq, products, nextId>>

\* GET /db-test, up to its await
ReceiveDbTest(r) ==
  /\ variant = 2
  /\ preq[r].pc = "idle"
  /\ preq' = [preq EXCEPT ![r] = IssueQuery([@ EXCEPT !.kind = "dbtest"])]
  /\ UNCHANGED <<variant, oreq, products, nextId>>

\* SELECT NOW() executes and the handler answers with the row
DbTestOk(r) ==
  /\ preq[r].pc = "querying"
  /\ preq[r].kind = "dbtest"
  /\ preq' = [preq EXCEPT ![r] =
        [Respond(Logged(@, "query_ok"), PResponse(200, Absent, "now", <<>>))
           EXCEPT !.pc = "done"]]
  /\ UNCHANGED <<variant, oreq, products, nextId>>

\* the connection of a finished request is closed; the slot takes the next one
CloseProduct(r) ==
  /\ preq[r].pc = "done"
  /\ preq' = [preq EXCEPT ![r] = IdleProdReq]
  /\ UNCHANGED <<variant, oreq, products, nextId>>

\* ------------------------------------------------------- specifications
Init ==
  /\ variant \in {1, 2}
  /\ oreq = [r \in OReq |-> IdleOrderReq]
  /\ preq = [r \in PReq |-> IdleProdReq]
  /\ products = <<>>
  /\ nextId = 1

NextOrders ==
  \/ \E r \in OReq, order \in Orders : ReceiveOrderB(r, order)
  \/ \E r \in OReq, ok \in BOOLEAN : NotifySettleB(r, ok)
  \/ \E r \in OReq, order \in Orders : ReceiveOrderA(r, order)
  \/ \E r \in OReq, ok \in BOOLEAN : NotifySettleA(r, ok)
  \/ \E r \in OReq : CloseOrder(r)

SpecOrders == Init /\ [][NextOrders]_vars

NextProducts ==
  \/ \E r \in PReq, body \in ProductBodies : ReceiveCreate1(r, body)
  \/ \E r \in PReq, body \in ProductBodies : ReceiveCreate2(r, body)
  \/ \E r \in PReq, id \in 1..MaxId, body \in UpdateBodies : ReceiveUpdate(r, id, body)
  \/ \E r \in PReq, id \in 1..MaxId : ReceiveDelete(r, id)
  \/ \E r \in PReq : ReceiveList(r)
  \/ \E r \in PReq : ReceiveDbTest(r)
  \/ \E r \in PReq, ok \in BOOLEAN : UploadSettle(r, ok)
  \/ \E r \in PReq : InsertOk(r)
  \/ \E r \in PReq : UpdateOk(r)
  \/ \E r \in PReq : DeleteOk(r)
  \/ \E r \in PReq : ListOk(r)
  \/ \E r \in PReq : DbTestOk(r)
  \/ \E r \in PReq : QueryFailCaught(r)
  \/ \E r \in PReq, express \in ExpressVersions : QueryFailEscapes(r, express)
  \/ \E r \in PReq : CloseProduct(r)

SpecProducts == Init /\ [][NextProducts]_vars

\* ------------------------------------------------------------- the claims
Has(log, event) == \E i \in 1..Len(log) : log[i] = event

\* the place of the first occurrence of the event in the log
Pos(log, event) == CHOOSE i \in 1..Len(log) : log[i] = event /\ \A j \in 1..(i - 1) : log[j] # event

Count(log, event) == Cardinality({i \in 1..Len(log) : log[i] = event})

\* a required field of the order is missing: customerName, phone, address, and
\* in revision 2 items
MissingRequired(order) ==
  \/ order.customerName \in {Absent, Null, ""}
  \/ order.phone \in {Absent, Null, ""}
  \/ order.address \in {Absent, Null, ""}
  \/ (variant = 2 /\ order.items.kind = "undefined")

\* C1: under Policy A (revision 2), every order that passes validation has the
\* notification invoked and settled before the one response is sent, and the
\* response is 200 success:true exactly when the notification succeeded and
\* 500 success:false exactly when it failed.
C1_PolicyAReflectsNotification ==
  \A r \in OReq :
    LET q == oreq[r] IN
      (variant = 2 /\ q.pc # "idle" /\ ~MissingRequired(q.order)) =>
        /\ Has(q.log, "notify_invoked")
        /\ q.res # <<>> =>
             /\ Len(q.res) = 1
             /\ Has(q.log, "notify_ok") \/ Has(q.log, "notify_failed")
             /\ (q.res[1].status = 200 /\ q.res[1].success = "true")
                  <=> Has(q.log, "notify_ok")
             /\ (q.res[1].status = 500 /\ q.res[1].success = "false")
                  <=> Has(q.log, "notify_failed")

\* C2: under Policy B (revision 1), every order that passes validation gets the
\* 200 success:true response before the notification is invoked, that response
\* is the only one and is the same whatever the notification does, and a
\* notification failure is caught and logged inside sendWhatsAppOrder: no
\* rejection leaves it.
C2_PolicyBRespondsFirst ==
  \A r \in OReq :
    LET q == oreq[r] IN
      (variant = 1 /\ q.pc # "idle" /\ ~MissingRequired(q.order)) =>
        /\ q.res = <<Response(200, "true", "Order placed successfully", Absent)>>
        /\ Count(q.log, "respond") = 1
        /\ Has(q.log, "notify_invoked")
        /\ Pos(q.log, "respond") < Pos(q.log, "notify_invoked")
        /\ q.pc \in {"notifying", "done"}
        /\ Has(q.log, "notify_failed") =>
             (q.pc = "done" /\ Has(q.log, "logged_failure"))

\* an order of revision 1 was answered 200 and its notification then failed
C2_Witness ==
  \E r \in OReq :
    /\ variant = 1
    /\ oreq[r].pc = "done"
    /\ Has(oreq[r].log, "notify_failed")
    /\ oreq[r].res[1].status = 200

\* C3: in both order handlers an order that misses a required field is
\* answered 400 (once), the notification is never invoked for it and nothing
\* is changed in the store.
C3_InvalidOrderRejected ==
  \A r \in OReq :
    LET q == oreq[r] IN
      (q.pc # "idle" /\ MissingRequired(q.order)) =>
        /\ q.pc = "done"
        /\ Len(q.res) = 1
        /\ q.res[1].status = 400
        /\ ~Has(q.log, "notify_invoked")
        /\ q.message = <<>>
        /\ products = <<>>
        /\ nextId = 1

\* an order of revision 2 that carries everything but items was answered
C3_Witness ==
  \E r \in OReq :
    /\ variant = 2
    /\ oreq[r].pc = "done"
    /\ oreq[r].order.customerName = "A"
    /\ oreq[r].order.phone = "123"
    /\ oreq[r].order.address = "Street"
    /\ oreq[r].order.items = NoItems
    /\ oreq[r].res[1].status = 400

\* C4: in every create handler a create with neither a file nor an imageUrl,
\* or without title or category, is answered 400 and issues no insert.
C4_CreateWithoutImageRejected ==
  \A r \in PReq :
    LET q == preq[r] IN
      ( /\ q.kind \in {"create1", "create2"}
        /\ \/ (q.body.file = Absent /\ Falsy(q.body.imageUrl))
           \/ Falsy(q.body.title)
           \/ Falsy(q.body.category) ) =>
        /\ q.pc = "done"
        /\ Len(q.res) = 1
        /\ q.res[1].status = 400
        /\ ~Has(q.log, "query_issued")

\* C5: an update leaves every field the request does not supply as it is
\* stored; the image is replaced only when a file or an imageUrl is supplied.
C5_PartialUpdateKeepsFields ==
  [][\A r \in PReq :
       ( /\ preq[r].kind = "update"
         /\ preq[r].pc = "querying"
         /\ preq'[r].pc = "done"
         /\ Has(preq'[r].log, "query_ok") ) =>
         /\ Len(products') = Len(products)
         /\ \A i \in 1..Len(products) :
              products[i].id = preq[r].id =>
                LET b == preq[r].body IN
                  /\ b.title = Absent => products'[i].title = products[i].title
                  /\ b.description = Absent =>
                       products'[i].description = products[i].description
                  /\ b.weight = Absent => products'[i].weight = products[i].weight
                  /\ b.category = Absent => products'[i].category = products[i].category
                  /\ (b.file = Absent /\ Falsy(b.imageUrl)) =>
                       products'[i].image = products[i].image]_vars

\* C6: a listing that the store answers returns 200 with all the rows the
\* table holds when the SELECT runs, in strictly descending id order, whatever
\* creates, updates and deletes ran before it or between its issue and its run.
C6_ListDescending ==
  [][\A r \in PReq :
       ( /\ preq[r].kind \in {"list1", "list2"}
         /\ preq[r].pc = "querying"
         /\ preq'[r].pc = "done"
         /\ Has(preq'[r].log, "query_ok") ) =>
         /\ Len(preq'[r].res) = 1
         /\ preq'[r].res[1].status = 200
         /\ LET rows == preq'[r].res[1].rows IN
              /\ Len(rows) = Len(products)
              /\ {rows[i] : i \in 1..Len(rows)} = {products[i] : i \in 1..Len(products)}
              /\ \A i \in 1..(Len(rows) - 1) : rows[i].id > rows[i + 1].id]_vars

\* a listing answered with two rows, the newest of them inserted after the
\* listing was issued
C6_Witness ==
  \E r \in PReq :
    /\ preq[r].kind \in {"list1", "list2"}
    /\ preq[r].pc = "done"
    /\ preq[r].res[1].status = 200
    /\ Len(preq[r].res[1].rows) >= 2
    /\ preq[r].res[1].rows[1].id >= preq[r].id

\* C7: a delete that the store executes is answered 200 {message: "Product
\* deleted"} whether or not a row had the id; when none had it the table is
\* unchanged, and afterwards no row has it, so a second delete of the id
\* changes nothing and is answered the same.
C7_DeleteIdempotent ==
  [][\A r \in PReq :
       ( /\ preq[r].kind = "delete"
         /\ preq[r].pc = "querying"
         /\ preq'[r].pc = "done"
         /\ Has(preq'[r].log, "query_ok") ) =>
         /\ preq'[r].res = <<PResponse(200, Absent, "Product deleted", <<>>)>>
         /\ Ids(products') = Ids(products) \ {preq[r].id}
         /\ preq[r].id \notin Ids(products) => products' = products
         /\ DeleteRows(products', preq[r].id) = products']_vars

\* a delete of an id no row has was answered 200
C7_Witness ==
  \E r \in PReq :
    /\ preq[r].kind = "delete"
    /\ preq[r].pc = "done"
    /\ Has(preq[r].log, "rowcount_0")
    /\ preq[r].res[1].status = 200

\* C8: in every create handler a create with title, category and an imageUrl
\* and no file, once inserted, is answered 201 with the persisted row, whose
\* image is the imageUrl and whose id no other row has.
C8_CreateWithUrlReturns201 ==
  \A r \in PReq :
    LET q == preq[r] IN
      ( /\ q.kind \in {"create1", "create2"}
        /\ q.pc = "done"
        /\ Has(q.log, "query_ok")
        /\ Truthy(q.body.title) /\ Truthy(q.body.category)
        /\ Truthy(q.body.imageUrl) /\ q.body.file = Absent ) =>
        /\ Len(q.res) = 1
        /\ q.res[1].status = 201
        /\ Len(q.res[1].rows) = 1
        /\ q.res[1].rows[1].image = q.body.imageUrl
        /\ q.res[1].rows[1].title = q.body.title
        /\ \A i, j \in 1..Len(products) : i # j => products[i].id # products[j].id

\* C9: in every handler a failed dependency call is caught by the handler: the
\* request is answered 500 and no rejection leaves the handler unhandled.
C9_DependencyFailureAnswered500 ==
  \A r \in PReq :
    LET q == preq[r] IN
      /\ q.pc # "unhandled"
      /\ (Has(q.log, "query_failed") \/ Has(q.log, "upload_failed")) =>
           (q.pc = "done" /\ Len(q.res) = 1 /\ q.res[1].status = 500)

\* C10: in a create with a file the insert is not issued while the upload is
\* pending; it is issued after the upload resolved, with the URL the upload
\* returned as the image (also when the body carries an imageUrl); when the
\* upload fails the answer is 500 and no insert is issued.
C10_UploadAwaitedBeforeInsert ==
  \A r \in PReq :
    LET q == preq[r] IN
      (q.kind \in {"create1", "create2"} /\ Has(q.log, "upload_started")) =>
        /\ q.pc = "uploading" => (~Has(q.log, "query_issued") /\ q.res = <<>>)
        /\ Has(q.log, "query_issued") =>
             /\ Has(q.log, "upload_ok")
             /\ Pos(q.log, "upload_ok") < Pos(q.log, "query_issued")
             /\ q.image = SecureUrl(q.body.file)
        /\ Has(q.log, "query_ok") =>
             /\ q.res[1].rows[1].image = SecureUrl(q.body.file)
             /\ q.res[1].rows[1].image # q.body.imageUrl
        /\ Has(q.log, "upload_failed") =>
             /\ q.pc = "done"
             /\ Len(q.res) = 1
             /\ q.res[1].status = 500
             /\ ~Has(q.log, "query_issued")

\* a create of revision 2 with a file and an imageUrl was inserted with the
\* uploaded URL
C10_Witness ==
  \E r \in PReq :
    /\ preq[r].kind = "create2"
    /\ preq[r].pc = "done"
    /\ Has(preq[r].log, "query_ok")
    /\ Truthy(preq[r].body.imageUrl)
    /\ preq[r].body.file # Absent
    /\ preq[r].res[1].rows[1].image = SecureUrl(preq[r].body.file)

====
